---- MODULE Spec2Model ----
(***************************************************************************)
(* The shared informer factory of pkg/controller/shared/shared_informer.go *)
(* as a state machine: two pools of pipelines (informers, coreInformers),  *)
(* their started flags, the mutex, and the goroutines that call            *)
(* Start, StartCore, the typed accessors and the facades' Informer().      *)
(***************************************************************************)
EXTENDS Naturals, FiniteSets, Sequences

\* ------------------------------------------------------------------ bounds
\* Number of goroutines that call into the factory concurrently.
NumThreads == 2

Threads == 1..NumThreads

\* ------------------------------------------------------------- vocabulary
\* The resource kinds of the model: two whose facades register in the core
\* pool and two whose facades register in the general pool.
CoreKinds == {"ClusterPolicy", "Policy"}
GeneralKinds == {"Build", "ImageStream"}
Kinds == CoreKinds \cup GeneralKinds

\* The cancellation channels a caller may hand to Start / StartCore.
Chans == {"stopA", "stopB"}

\* nil ListerWatcher, the default client, and an override handle.
NilLW == "nil"
DefaultClient == "originClient"
Handles == {"overrideHandleX"}

\* A pipeline instance: the n-th pipeline constructed for its kind, with the
\* data source it was built from.  Nil is the absent map entry; Err is the
\* failure a caller gets when PipelineSource cannot build.
Nil == [kind |-> "nil", n |-> 0, lw |-> NilLW]
Err == [kind |-> "error", n |-> 0, lw |-> NilLW]

\* The override tables a registry may be constructed with.
OverrideTables ==
    { [k \in D |-> "overrideHandleX"] : D \in {{}, {"Build"}, {"ClusterPolicy", "ImageStream"}} }

VARIABLES
    informers,             \* f.informers: kind -> pipeline or Nil
    coreInformers,         \* f.coreInformers
    startedInformers,      \* f.startedInformers: kind -> BOOLEAN (missing key reads false)
    startedCoreInformers,  \* f.startedCoreInformers
    lock,                  \* f.lock: TRUE while held
    customListerWatchers,  \* f.customListerWatchers, fixed at construction
    pc,                    \* each goroutine's position
    frame,                 \* each goroutine's locals in the call it is in
    runs,                  \* kind -> the `go informer.Run(stopCh)` launches so far
    constructed,           \* kind -> number of pipelines constructed
    failed,                \* the kind PipelineSource failed for most recently ("nil": none yet)
    script,                \* the scripted driver of SpecScenario (idle in Spec)
    closed,                \* the cancellation channels that have been closed
    stopped                \* the launches <<kind, index in runs[kind]>> whose run loop has returned

vars == <<informers, coreInformers, startedInformers, startedCoreInformers, lock,
          customListerWatchers, pc, frame, runs, constructed, failed, script,
          closed, stopped>>

pools == <<informers, coreInformers>>
flags == <<startedInformers, startedCoreInformers>>
ghosts == <<runs, constructed, failed>>
signals == <<closed, stopped>>
outside == <<script, closed, stopped>>

\* The locals of a goroutine that is in no call.
NoFrame ==
    [fn |-> "none", kind |-> "nil", ch |-> "nil", todo |-> {}, cur |-> "nil",
     inf |-> Nil, val |-> Nil, src |-> "none", snap |-> {}, launched |-> {}]

\* ------------------------------------------------------------ construction
\* The driver that is not running a script.
NoScript == [calls |-> <<>>, pre |-> FALSE]

\* NewInformerFactory: four empty maps, an unlocked mutex, the override table.
NewInformerFactory(listerWatchers) ==
    /\ informers = [k \in Kinds |-> Nil]
    /\ coreInformers = [k \in Kinds |-> Nil]
    /\ startedInformers = [k \in Kinds |-> FALSE]
    /\ startedCoreInformers = [k \in Kinds |-> FALSE]
    /\ lock = FALSE
    /\ customListerWatchers = listerWatchers
    /\ runs = [k \in Kinds |-> <<>>]
    /\ constructed = [k \in Kinds |-> 0]
    /\ failed = "nil"

Init ==
    /\ \E o \in OverrideTables : NewInformerFactory(o)
    /\ pc = [t \in Threads |-> "idle"]
    /\ frame = [t \in Threads |-> NoFrame]
    /\ script = NoScript
    /\ closed = {}
    /\ stopped = {}

\* ----------------------------------------------------------------- helpers
\* The keys of a Go map: the kinds with an entry.
Registered(m) == {k \in Kinds : m[k] # Nil}

\* Mutant: Lock() that never blocks (the mutex left out).
NoLock == TRUE

\* sync.Mutex: Lock() proceeds only when the mutex is free.
LockFree == lock = FALSE

\* Mutant: a lookup that never finds the override.
NoOverride(o, resource) == NilLW

\* DefaultListerWatcherOverrides.GetListerWatcher: o[resource], nil when absent.
GetListerWatcher(o, resource) ==
    IF resource \in DOMAIN o THEN o[resource] ELSE NilLW

\* The pool a kind's facade registers in.
PoolOf(k) == IF k \in CoreKinds THEN "core" ELSE "general"

\* The pipeline stored for k in the pool its facade uses.
Stored(k) == IF PoolOf(k) = "core" THEN coreInformers[k] ELSE informers[k]

\* The thread that runs the scripted call sequence of SpecScenario.
Driver == NumThreads + 1

\* A goroutine calls one of the locked operations and reaches f.lock.Lock().
Call(t) ==
    /\ pc[t] = "idle"
    /\ pc' = [pc EXCEPT ![t] = "lock"]
    /\ UNCHANGED <<pools, flags, lock, customListerWatchers, frame, ghosts>>

\* --------------------------------------------------------------- getOrCreate
\* facade.Informer(): f.lock.Lock(); defer f.lock.Unlock()
InformerLock(t, k) ==
    /\ pc[t] = "lock"
    /\ LockFree
    /\ lock' = TRUE
    /\ pc' = [pc EXCEPT ![t] = "check"]
    /\ frame' = [frame EXCEPT ![t] = [NoFrame EXCEPT !.fn = "getOrCreate", !.kind = k]]
    /\ UNCHANGED <<pools, flags, customListerWatchers, ghosts>>

\* Mutant: a kind whose construction failed is treated as present.
NegativeCache(k) == Stored(k) # Nil \/ failed = k

\* informer, exists := pool[kind]; if exists { return informer }
Exists(k) == Stored(k) # Nil

InformerCheck(t) ==
    /\ pc[t] = "check"
    /\ IF Exists(frame[t].kind)
       THEN /\ frame' = [frame EXCEPT ![t].inf = Stored(frame[t].kind),
                                      ![t].val = Stored(frame[t].kind)]
            /\ pc' = [pc EXCEPT ![t] = "return"]
       ELSE /\ pc' = [pc EXCEPT ![t] = "construct"]
            /\ UNCHANGED frame
    /\ UNCHANGED <<pools, flags, lock, customListerWatchers, ghosts>>

\* The data source a pipeline for k is built from: the override when the
\* table gives one, the default client otherwise.
SourceFor(k) ==
    LET lw == GetListerWatcher(customListerWatchers, k)
    IN  IF lw = NilLW THEN DefaultClient ELSE lw

\* Mutant: the failure path falls through to the insert.
FallThrough == "insert"

\* Where a call goes when PipelineSource has failed: straight to its return.
AfterFailure == "return"

\* PipelineSource builds the pipeline, or fails.
InformerConstruct(t) ==
    /\ pc[t] = "construct"
    /\ LET k == frame[t].kind
       IN  \/ /\ frame' = [frame EXCEPT ![t].src = "built", ![t].val =
                             [kind |-> k, n |-> constructed[k] + 1, lw |-> SourceFor(k)]]
              /\ constructed' = [constructed EXCEPT ![k] = @ + 1]
              /\ pc' = [pc EXCEPT ![t] = "insert"]
              /\ UNCHANGED failed
           \/ /\ frame' = [frame EXCEPT ![t].src = "failed", ![t].val = Err]
              /\ failed' = k
              /\ pc' = [pc EXCEPT ![t] = AfterFailure]
              /\ UNCHANGED constructed
    /\ UNCHANGED <<pools, flags, lock, customListerWatchers, runs>>

\* Mutant: the new pipeline is stored in both pools.
InformerInsertBoth(t) ==
    /\ pc[t] = "insert"
    /\ coreInformers' = [coreInformers EXCEPT ![frame[t].kind] = frame[t].val]
    /\ informers' = [informers EXCEPT ![frame[t].kind] = frame[t].val]
    /\ pc' = [pc EXCEPT ![t] = "return"]
    /\ UNCHANGED <<flags, lock, customListerWatchers, frame, ghosts>>

\* pool[kind] = informer
InformerInsert(t) ==
    /\ pc[t] = "insert"
    /\ LET k == frame[t].kind
       IN  IF PoolOf(k) = "core"
           THEN /\ coreInformers' = [coreInformers EXCEPT ![k] = frame[t].val]
                /\ UNCHANGED informers
           ELSE /\ informers' = [informers EXCEPT ![k] = frame[t].val]
                /\ UNCHANGED coreInformers
    /\ pc' = [pc EXCEPT ![t] = "return"]
    /\ UNCHANGED <<flags, lock, customListerWatchers, frame, ghosts>>

\* return: the deferred Unlock runs and the caller has frame[t].val.
InformerReturn(t) ==
    /\ pc[t] = "return"
    /\ lock' = FALSE
    /\ pc' = [pc EXCEPT ![t] = "idle"]
    /\ frame' = [frame EXCEPT ![t] = NoFrame]
    /\ UNCHANGED <<pools, flags, customListerWatchers, ghosts>>

\* --------------------------------------------------------------------- Start
\* Mutant: Start that ranges over the core map.
StartOverCore == coreInformers

\* Mutant: Start without its `if !f.startedInformers[informerType]`.
NeverStarted(k) == FALSE

\* Mutant: a Start whose test takes every pipeline for started.
AlwaysStarted(k) == TRUE

\* Mutant: a Start that takes a pipeline whose run loop has returned for
\* not started.
StartedAndRunning(k) ==
    startedInformers[k] /\ \A i \in DOMAIN runs[k] : <<k, i>> \notin stopped

\* Mutant: a Start that passes over every pipeline while a registered core
\* pipeline is not started (core before general, enforced).
StartedOrCoreWaiting(k) ==
    \/ startedInformers[k]
    \/ \E j \in Kinds : coreInformers[j] # Nil /\ ~startedCoreInformers[j]

\* The map Start ranges over and the flag it reads.
StartPool == informers
IsStarted(k) == startedInformers[k]

\* f.lock.Lock(); defer f.lock.Unlock(); the range begins over f.informers.
StartLock(t, stopCh) ==
    /\ pc[t] = "lock"
    /\ LockFree
    /\ lock' = TRUE
    /\ pc' = [pc EXCEPT ![t] = "range"]
    /\ frame' = [frame EXCEPT ![t] =
                   [NoFrame EXCEPT !.fn = "Start", !.ch = stopCh,
                                   !.todo = Registered(StartPool),
                                   !.snap = {k \in Registered(StartPool) : ~IsStarted(k)}]]
    /\ UNCHANGED <<pools, flags, customListerWatchers, ghosts>>

\* for informerType, informer := range f.informers { if !f.startedInformers[informerType]
StartRange(t) ==
    /\ pc[t] = "range"
    /\ frame[t].fn = "Start"
    /\ \E k \in frame[t].todo :
          /\ frame' = [frame EXCEPT ![t].todo = @ \ {k}, ![t].cur = k,
                                    ![t].inf = StartPool[k]]
          /\ pc' = [pc EXCEPT ![t] = IF IsStarted(k) THEN "range" ELSE "run"]
    /\ UNCHANGED <<pools, flags, lock, customListerWatchers, ghosts>>

\* Mutant: `go informer.Run(wait.NeverStop)`: the run loop is not given the
\* caller's channel.
StartRunNeverStop(t) ==
    /\ pc[t] = "run"
    /\ frame[t].fn = "Start"
    /\ runs' = [runs EXCEPT ![frame[t].cur] =
                  Append(@, [inf |-> frame[t].inf, ch |-> "neverStop", by |-> "Start"])]
    /\ frame' = [frame EXCEPT ![t].launched = @ \cup {frame[t].cur}]
    /\ pc' = [pc EXCEPT ![t] = "mark"]
    /\ UNCHANGED <<pools, flags, lock, customListerWatchers, constructed, failed>>

\* go informer.Run(stopCh)
StartRun(t) ==
    /\ pc[t] = "run"
    /\ frame[t].fn = "Start"
    /\ runs' = [runs EXCEPT ![frame[t].cur] =
                  Append(@, [inf |-> frame[t].inf, ch |-> frame[t].ch, by |-> "Start"])]
    /\ frame' = [frame EXCEPT ![t].launched = @ \cup {frame[t].cur}]
    /\ pc' = [pc EXCEPT ![t] = "mark"]
    /\ UNCHANGED <<pools, flags, lock, customListerWatchers, constructed, failed>>

\* Mutant: `informer.Run(stopCh)` without `go`: the next statement runs
\* only after the run loop has returned.
StartWaitsForRun(t) ==
    /\ pc[t] = "mark"
    /\ frame[t].fn = "Start"
    /\ <<frame[t].cur, Len(runs[frame[t].cur])>> \in stopped
    /\ startedInformers' = [startedInformers EXCEPT ![frame[t].cur] = TRUE]
    /\ pc' = [pc EXCEPT ![t] = "range"]
    /\ UNCHANGED <<pools, startedCoreInformers, lock, customListerWatchers, frame, ghosts>>

\* f.startedInformers[informerType] = true
StartMark(t) ==
    /\ pc[t] = "mark"
    /\ frame[t].fn = "Start"
    /\ startedInformers' = [startedInformers EXCEPT ![frame[t].cur] = TRUE]
    /\ pc' = [pc EXCEPT ![t] = "range"]
    /\ UNCHANGED <<pools, startedCoreInformers, lock, customListerWatchers, frame, ghosts>>

\* The range is exhausted: Start returns and the deferred Unlock runs.
StartReturn(t) ==
    /\ pc[t] = "range"
    /\ frame[t].fn = "Start"
    /\ frame[t].todo = {}
    /\ lock' = FALSE
    /\ pc' = [pc EXCEPT ![t] = "idle"]
    /\ frame' = [frame EXCEPT ![t] = NoFrame]
    /\ UNCHANGED <<pools, flags, customListerWatchers, ghosts>>

\* ----------------------------------------------------------------- StartCore
\* Mutant: StartCore without its `if !f.startedCoreInformers[informerType]`.
NeverStartedCore(k) == FALSE

StartCorePool == coreInformers
IsStartedCore(k) == startedCoreInformers[k]

StartCoreLock(t, stopCh) ==
    /\ pc[t] = "lock"
    /\ LockFree
    /\ lock' = TRUE
    /\ pc' = [pc EXCEPT ![t] = "range"]
    /\ frame' = [frame EXCEPT ![t] =
                   [NoFrame EXCEPT !.fn = "StartCore", !.ch = stopCh,
                                   !.todo = Registered(StartCorePool),
                                   !.snap = {k \in Registered(StartCorePool) : ~IsStartedCore(k)}]]
    /\ UNCHANGED <<pools, flags, customListerWatchers, ghosts>>

StartCoreRange(t) ==
    /\ pc[t] = "range"
    /\ frame[t].fn = "StartCore"
    /\ \E k \in frame[t].todo :
          /\ frame' = [frame EXCEPT ![t].todo = @ \ {k}, ![t].cur = k,
                                    ![t].inf = StartCorePool[k]]
          /\ pc' = [pc EXCEPT ![t] = IF IsStartedCore(k) THEN "range" ELSE "run"]
    /\ UNCHANGED <<pools, flags, lock, customListerWatchers, ghosts>>

StartCoreRun(t) ==
    /\ pc[t] = "run"
    /\ frame[t].fn = "StartCore"
    /\ runs' = [runs EXCEPT ![frame[t].cur] =
                  Append(@, [inf |-> frame[t].inf, ch |-> frame[t].ch, by |-> "StartCore"])]
    /\ frame' = [frame EXCEPT ![t].launched = @ \cup {frame[t].cur}]
    /\ pc' = [pc EXCEPT ![t] = "mark"]
    /\ UNCHANGED <<pools, flags, lock, customListerWatchers, constructed, failed>>

StartCoreMark(t) ==
    /\ pc[t] = "mark"
    /\ frame[t].fn = "StartCore"
    /\ startedCoreInformers' = [startedCoreInformers EXCEPT ![frame[t].cur] = TRUE]
    /\ pc' = [pc EXCEPT ![t] = "range"]
    /\ UNCHANGED <<pools, startedInformers, lock, customListerWatchers, frame, ghosts>>

StartCoreReturn(t) ==
    /\ pc[t] = "range"
    /\ frame[t].fn = "StartCore"
    /\ frame[t].todo = {}
    /\ lock' = FALSE
    /\ pc' = [pc EXCEPT ![t] = "idle"]
    /\ frame' = [frame EXCEPT ![t] = NoFrame]
    /\ UNCHANGED <<pools, flags, customListerWatchers, ghosts>>

\* Mutant: an accessor that resolves its pipeline on the spot, building and
\* storing it when the kind is absent.
EagerAccessor(t, k) ==
    /\ pc[t] = "start"
    /\ pc' = [pc EXCEPT ![t] = "facade"]
    /\ frame' = [frame EXCEPT ![t] = [NoFrame EXCEPT !.fn = "accessor", !.kind = k]]
    /\ IF Stored(k) # Nil
       THEN UNCHANGED <<pools, constructed>>
       ELSE /\ constructed' = [constructed EXCEPT ![k] = @ + 1]
            /\ IF PoolOf(k) = "core"
               THEN /\ coreInformers' = [coreInformers EXCEPT ![k] =
                          [kind |-> k, n |-> constructed[k] + 1, lw |-> SourceFor(k)]]
                    /\ UNCHANGED informers
               ELSE /\ informers' = [informers EXCEPT ![k] =
                          [kind |-> k, n |-> constructed[k] + 1, lw |-> SourceFor(k)]]
                    /\ UNCHANGED coreInformers
    /\ UNCHANGED <<flags, lock, customListerWatchers, runs, failed>>

\* ----------------------------------------------------------------- accessors
\* f.Builds() and its siblings: a fresh facade that holds the factory and
\* nothing else; the registry is not touched.
Accessor(t, k) ==
    /\ pc[t] = "start"
    /\ pc' = [pc EXCEPT ![t] = "facade"]
    /\ frame' = [frame EXCEPT ![t] = [NoFrame EXCEPT !.fn = "accessor", !.kind = k]]
    /\ UNCHANGED <<pools, flags, lock, customListerWatchers, ghosts>>

Builds(t) == Accessor(t, "Build")

\* The holder of a facade calls its Informer() and reaches f.lock.Lock().
FacadeInformer(t) ==
    /\ pc[t] = "facade"
    /\ pc' = [pc EXCEPT ![t] = "lock"]
    /\ UNCHANGED <<pools, flags, lock, customListerWatchers, frame, ghosts>>

\* The two factories handed through by KubernetesInformers() and
\* InternalKubernetesInformers().
Passthroughs == {"kubeInformers", "internalKubeInformers"}

\* return f.kubeInformers / return f.internalKubeInformers
Passthrough(t, v) ==
    /\ pc[t] = "start"
    /\ pc' = [pc EXCEPT ![t] = "view"]
    /\ frame' = [frame EXCEPT ![t] = [NoFrame EXCEPT !.fn = "passthrough", !.kind = v]]
    /\ UNCHANGED <<pools, flags, lock, customListerWatchers, ghosts>>

\* The caller lets go of the facade or factory it was given.
DropView(t) ==
    /\ pc[t] \in {"facade", "view"}
    /\ pc' = [pc EXCEPT ![t] = "start"]
    /\ frame' = [frame EXCEPT ![t] = NoFrame]
    /\ UNCHANGED <<pools, flags, lock, customListerWatchers, ghosts>>

\* A goroutine that has returned from a locked call is about to call an
\* accessor.
Resume(t) ==
    /\ pc[t] = "idle"
    /\ pc' = [pc EXCEPT ![t] = "start"]
    /\ UNCHANGED <<pools, flags, lock, customListerWatchers, frame, ghosts>>

\* ------------------------------------------------------------- specification
\* Any goroutine takes a step of the call it is in; the script stays idle.
Next ==
    \/ \E t \in Threads : (Call(t)) /\ UNCHANGED outside
    \/ \E t \in Threads : (\E k \in Kinds : InformerLock(t, k)) /\ UNCHANGED outside
    \/ \E t \in Threads : (InformerCheck(t)) /\ UNCHANGED outside
    \/ \E t \in Threads : (InformerConstruct(t)) /\ UNCHANGED outside
    \/ \E t \in Threads : (InformerInsert(t)) /\ UNCHANGED outside
    \/ \E t \in Threads : (InformerReturn(t)) /\ UNCHANGED outside
    \/ \E t \in Threads : (\E stopCh \in Chans : StartLock(t, stopCh)) /\ UNCHANGED outside
    \/ \E t \in Threads : (StartRange(t)) /\ UNCHANGED outside
    \/ \E t \in Threads : (StartRun(t)) /\ UNCHANGED outside
    \/ \E t \in Threads : (StartMark(t)) /\ UNCHANGED outside
    \/ \E t \in Threads : (StartReturn(t)) /\ UNCHANGED outside
    \/ \E t \in Threads : (\E stopCh \in Chans : StartCoreLock(t, stopCh)) /\ UNCHANGED outside
    \/ \E t \in Threads : (StartCoreRange(t)) /\ UNCHANGED outside
    \/ \E t \in Threads : (StartCoreRun(t)) /\ UNCHANGED outside
    \/ \E t \in Threads : (StartCoreMark(t)) /\ UNCHANGED outside
    \/ \E t \in Threads : (StartCoreReturn(t)) /\ UNCHANGED outside

Spec == Init /\ [][Next]_vars

\* ------------------------------------------------------------------ scenario
\* Two goroutines call Builds() on a fresh registry (and may each go on to
\* resolve the facade); once both have called it, the driver makes the calls
\* StartCore(ch), Start(ch), Start(ch), one after the other.
ScenarioCalls(ch) ==
    << [fn |-> "StartCore", ch |-> ch], [fn |-> "Start", ch |-> ch],
       [fn |-> "Start", ch |-> ch] >>

InitScenario ==
    /\ \E o \in OverrideTables : NewInformerFactory(o)
    /\ pc = [t \in Threads \cup {Driver} |-> IF t = Driver THEN "idle" ELSE "start"]
    /\ frame = [t \in Threads \cup {Driver} |-> NoFrame]
    /\ \E ch \in Chans : script = [calls |-> ScenarioCalls(ch), pre |-> FALSE]
    /\ closed = {}
    /\ stopped = {}

\* The driver makes its next call; script.pre records, at the first call,
\* whether a Build pipeline is registered by then.
DriverCall ==
    /\ script.calls # <<>>
    /\ \A t \in Threads : pc[t] # "start"
    /\ Call(Driver)
    /\ script' = [script EXCEPT !.pre = IF script.calls = ScenarioCalls(script.calls[1].ch)
                                          THEN informers["Build"] # Nil ELSE @]
    /\ UNCHANGED signals

DriverLock ==
    /\ pc[Driver] = "lock"
    /\ LET c == Head(script.calls)
       IN  IF c.fn = "StartCore" THEN StartCoreLock(Driver, c.ch) ELSE StartLock(Driver, c.ch)
    /\ UNCHANGED outside

\* The driver's call runs its loop, whichever of the two functions it is in.
\* (The core pool stays empty here, so StartCore's range is empty; its loop
\* body is part of the step all the same.)
DriverBody ==
    /\ pc[Driver] \in {"range", "run", "mark"}
    /\ \/ StartRange(Driver) \/ StartRun(Driver) \/ StartMark(Driver)
       \/ StartCoreRange(Driver) \/ StartCoreRun(Driver) \/ StartCoreMark(Driver)
    /\ UNCHANGED outside

DriverReturn ==
    /\ StartReturn(Driver) \/ StartCoreReturn(Driver)
    /\ script' = [script EXCEPT !.calls = Tail(@)]
    /\ UNCHANGED signals

\* A goroutine of the scenario calls Builds(), then possibly Informer() on
\* the facade it got; the driver makes its calls.
NextScenario ==
    \/ \E t \in Threads : Builds(t) /\ UNCHANGED outside
    \/ \E t \in Threads : FacadeInformer(t) /\ UNCHANGED outside
    \/ \E t \in Threads : InformerLock(t, frame[t].kind) /\ UNCHANGED outside
    \/ \E t \in Threads : InformerCheck(t) /\ UNCHANGED outside
    \/ \E t \in Threads : InformerConstruct(t) /\ UNCHANGED outside
    \/ \E t \in Threads : InformerInsert(t) /\ UNCHANGED outside
    \/ \E t \in Threads : InformerReturn(t) /\ UNCHANGED outside
    \/ DriverCall
    \/ DriverLock
    \/ DriverBody
    \/ DriverReturn

SpecScenario == InitScenario /\ [][NextScenario]_vars

\* The scripted calls have all returned.
ScenarioDone == script.calls = <<>> /\ pc[Driver] = "idle"

\* -------------------------------------------------------------- cancellation
\* The kinds the goroutines of SpecLive and SpecCancel ask for: one of each
\* pool.
LiveKinds == {"ClusterPolicy", "Build"}

\* DefaultListerWatcherOverrides{}: an override table with no entry.
NoOverrides == [k \in {} |-> NilLW]

\* A factory constructed without overrides, every goroutine idle.
InitLive ==
    /\ NewInformerFactory(NoOverrides)
    /\ pc = [t \in Threads |-> "idle"]
    /\ frame = [t \in Threads |-> NoFrame]
    /\ script = NoScript
    /\ closed = {}
    /\ stopped = {}

\* The owner of a cancellation channel closes it.
Close(ch) ==
    /\ ch \notin closed
    /\ closed' = closed \cup {ch}
    /\ UNCHANGED <<pools, flags, lock, customListerWatchers, pc, frame, ghosts,
                   script, stopped>>

\* informer.Run(stopCh) returns once stopCh is closed.
RunStop(k, i) ==
    /\ i \in DOMAIN runs[k]
    /\ <<k, i>> \notin stopped
    /\ runs[k][i].ch \in closed
    /\ stopped' = stopped \cup {<<k, i>>}
    /\ UNCHANGED <<pools, flags, lock, customListerWatchers, pc, frame, ghosts,
                   script, closed>>

\* A goroutine blocked in Lock() takes the mutex, for whichever call it made.
Acquire(t) ==
    /\ \/ \E k \in LiveKinds : InformerLock(t, k)
       \/ \E stopCh \in Chans : StartLock(t, stopCh)
       \/ \E stopCh \in Chans : StartCoreLock(t, stopCh)
    /\ UNCHANGED outside

\* A goroutine that holds the mutex takes the next step of its call.
Body(t) ==
    /\ \/ InformerCheck(t) \/ InformerConstruct(t) \/ InformerInsert(t) \/ InformerReturn(t)
       \/ StartRange(t) \/ StartRun(t) \/ StartMark(t) \/ StartReturn(t)
       \/ StartCoreRange(t) \/ StartCoreRun(t) \/ StartCoreMark(t) \/ StartCoreReturn(t)
    /\ UNCHANGED outside

NextLive ==
    \/ \E t \in Threads : Call(t) /\ UNCHANGED outside
    \/ \E t \in Threads : (\E k \in LiveKinds : InformerLock(t, k)) /\ UNCHANGED outside
    \/ \E t \in Threads : InformerCheck(t) /\ UNCHANGED outside
    \/ \E t \in Threads : InformerConstruct(t) /\ UNCHANGED outside
    \/ \E t \in Threads : InformerInsert(t) /\ UNCHANGED outside
    \/ \E t \in Threads : InformerReturn(t) /\ UNCHANGED outside
    \/ \E t \in Threads : (\E stopCh \in Chans : StartLock(t, stopCh)) /\ UNCHANGED outside
    \/ \E t \in Threads : StartRange(t) /\ UNCHANGED outside
    \/ \E t \in Threads : StartRun(t) /\ UNCHANGED outside
    \/ \E t \in Threads : StartMark(t) /\ UNCHANGED outside
    \/ \E t \in Threads : StartReturn(t) /\ UNCHANGED outside
    \/ \E t \in Threads : (\E stopCh \in Chans : StartCoreLock(t, stopCh)) /\ UNCHANGED outside
    \/ \E t \in Threads : StartCoreRange(t) /\ UNCHANGED outside
    \/ \E t \in Threads : StartCoreRun(t) /\ UNCHANGED outside
    \/ \E t \in Threads : StartCoreMark(t) /\ UNCHANGED outside
    \/ \E t \in Threads : StartCoreReturn(t) /\ UNCHANGED outside

\* The scheduler runs every goroutine that can take a step of its call, and
\* the mutex is handed to every goroutine that keeps waiting for it (a
\* sync.Mutex waiter that has waited long enough is handed the mutex ahead of
\* newcomers).  Nobody is obliged to make a call.
Fairness ==
    /\ \A t \in Threads : WF_vars(Body(t))
    /\ \A t \in Threads : SF_vars(Acquire(t))

\* The calls alone: no channel is ever closed and no run loop ever returns.
SpecLive == InitLive /\ [][NextLive]_vars /\ Fairness

\* The calls, the closing of channels and the return of run loops.
NextCancel ==
    \/ NextLive
    \/ \E ch \in Chans : Close(ch)
    \/ \E k \in LiveKinds : \E i \in DOMAIN runs[k] : RunStop(k, i)

\* A run loop whose channel is closed returns.  Nobody is obliged to close a
\* channel, and no goroutine is obliged to go on with its call.
RunFairness ==
    \A k \in LiveKinds : WF_vars(\E i \in DOMAIN runs[k] : RunStop(k, i))

SpecCancel == InitLive /\ [][NextCancel]_vars /\ RunFairness

\* -------------------------------------------------------------------- views
\* A factory constructed without overrides, every goroutine about to call an
\* accessor.
InitAccess ==
    /\ NewInformerFactory(NoOverrides)
    /\ pc = [t \in Threads |-> "start"]
    /\ frame = [t \in Threads |-> NoFrame]
    /\ script = NoScript
    /\ closed = {}
    /\ stopped = {}

\* A goroutine calls an accessor and drops what it got or, for a facade,
\* resolves it through Informer(); a goroutine in no call may call Start or
\* StartCore.
NextAccess ==
    \/ \E t \in Threads : (\E k \in LiveKinds : Accessor(t, k)) /\ UNCHANGED outside
    \/ \E t \in Threads : (\E v \in Passthroughs : Passthrough(t, v)) /\ UNCHANGED outside
    \/ \E t \in Threads : DropView(t) /\ UNCHANGED outside
    \/ \E t \in Threads : FacadeInformer(t) /\ UNCHANGED outside
    \/ \E t \in Threads : (frame[t].fn = "accessor" /\ InformerLock(t, frame[t].kind))
                               /\ UNCHANGED outside
    \/ \E t \in Threads : InformerCheck(t) /\ UNCHANGED outside
    \/ \E t \in Threads : InformerConstruct(t) /\ UNCHANGED outside
    \/ \E t \in Threads : InformerInsert(t) /\ UNCHANGED outside
    \/ \E t \in Threads : InformerReturn(t) /\ UNCHANGED outside
    \/ \E t \in Threads : Resume(t) /\ UNCHANGED outside
    \/ \E t \in Threads : Call(t) /\ UNCHANGED outside
    \/ \E t \in Threads : (frame[t].fn = "none" /\ \E stopCh \in Chans : StartLock(t, stopCh))
                               /\ UNCHANGED outside
    \/ \E t \in Threads : StartRange(t) /\ UNCHANGED outside
    \/ \E t \in Threads : StartRun(t) /\ UNCHANGED outside
    \/ \E t \in Threads : StartMark(t) /\ UNCHANGED outside
    \/ \E t \in Threads : StartReturn(t) /\ UNCHANGED outside
    \/ \E t \in Threads : (frame[t].fn = "none" /\ \E stopCh \in Chans : StartCoreLock(t, stopCh))
                               /\ UNCHANGED outside
    \/ \E t \in Threads : StartCoreRange(t) /\ UNCHANGED outside
    \/ \E t \in Threads : StartCoreRun(t) /\ UNCHANGED outside
    \/ \E t \in Threads : StartCoreMark(t) /\ UNCHANGED outside
    \/ \E t \in Threads : StartCoreReturn(t) /\ UNCHANGED outside

SpecAccess == InitAccess /\ [][NextAccess]_vars

\* ==================================================================== claims
\* The goroutines of the specification in force.
Procs == DOMAIN pc

\* A getOrCreate call is at its return with a pipeline (not a failure).
Returning(t) == pc[t] = "return" /\ frame[t].fn = "getOrCreate"
ReturnsPipeline(t) == Returning(t) /\ frame[t].val # Err

\* A Start or StartCore call has exhausted its range and is about to return.
Finishing(t, fn) == pc[t] = "range" /\ frame[t].fn = fn /\ frame[t].todo = {}

\* The launches of one pipeline instance among the launches of its kind.
LaunchesOf(inf) == {i \in DOMAIN runs[inf.kind] : runs[inf.kind][i].inf = inf}

\* Every instance that was ever launched.
Launched == UNION {{runs[k][i].inf : i \in DOMAIN runs[k]} : k \in Kinds}

\* C1: each pool holds at most one pipeline instance per kind: an entry, once
\* stored, is never replaced, and every getOrCreate call that succeeds returns
\* the instance stored for its kind, which is the one the first successful
\* call stored.
C1_SingletonPerKind ==
    /\ [](\A t \in Procs : ReturnsPipeline(t) =>
             /\ frame[t].val # Nil
             /\ frame[t].val = Stored(frame[t].kind))
    /\ [][\A k \in Kinds :
             /\ informers[k] # Nil => informers'[k] = informers[k]
             /\ coreInformers[k] # Nil => coreInformers'[k] = coreInformers[k]]_vars

\* C1 witness: a repeated getOrCreate returns the stored pipeline; the pipeline
\* is already started, so an earlier call stored it.
C1_Witness ==
    \E t \in Procs :
        /\ ReturnsPipeline(t)
        /\ frame[t].inf = Stored(frame[t].kind)
        /\ frame[t].val = frame[t].inf
        /\ startedInformers[frame[t].kind]

\* C2: however the first getOrCreate calls for a kind interleave, exactly one
\* pipeline is constructed for it (the construction counter never exceeds 1)
\* and every caller that gets a pipeline gets that first construction.
C2_OneConstruction ==
    /\ \A k \in Kinds : constructed[k] <= 1
    /\ \A t \in Procs : ReturnsPipeline(t) =>
          /\ constructed[frame[t].kind] = 1
          /\ frame[t].val.kind = frame[t].kind
          /\ frame[t].val.n = 1

\* C2 witness: one goroutine has constructed the kind's first pipeline and is
\* at its return while another goroutine is blocked in Lock().
C2_Witness ==
    \E t, u \in Procs :
        /\ t # u
        /\ ReturnsPipeline(t)
        /\ frame[t].src = "built"
        /\ constructed[frame[t].kind] = 1
        /\ pc[u] = "lock"

\* C3: the run loop of a pipeline is launched at most once, whatever the
\* sequence and interleaving of Start, StartCore and getOrCreate calls.
C3_LaunchedAtMostOnce ==
    \A inf \in Launched : Cardinality(LaunchesOf(inf)) <= 1

\* C3 witness: a Start call comes to a pipeline that an earlier call started,
\* and skips it.
C3_Witness ==
    \E t \in Procs :
        /\ pc[t] = "range"
        /\ frame[t].fn = "Start"
        /\ frame[t].cur \in Kinds
        /\ frame[t].cur \notin frame[t].snap
        /\ frame[t].cur \notin frame[t].launched
        /\ Cardinality(LaunchesOf(informers[frame[t].cur])) = 1

\* The kinds registered in the pool that fn (Start or StartCore) serves.
RegisteredFor(fn) ==
    IF fn = "StartCore" THEN Registered(coreInformers) ELSE Registered(informers)

\* C4: a Start (StartCore) call launches exactly the pipelines of its pool
\* that were unstarted when it took the lock, so that at its return every
\* registered pipeline of the pool has been launched exactly once; a call
\* that finds every registered pipeline started (a second call with no
\* registration in between) launches nothing, reports no failure and leaves
\* the pools, the started flags and the launches unchanged.
C4_SecondStartIsNoOp ==
    /\ [](\A t \in Procs : \A fn \in {"Start", "StartCore"} : Finishing(t, fn) =>
             /\ frame[t].launched = frame[t].snap
             /\ frame[t].val # Err
             /\ \A k \in RegisteredFor(fn) : Len(runs[k]) = 1)
    /\ [][(\E t \in Procs : frame[t].fn \in {"Start", "StartCore"} /\ frame[t].snap = {})
             => UNCHANGED <<pools, flags, runs>>]_vars

\* C4 witness: a StartCore call that found both core pipelines started is at
\* its return, having launched nothing.
C4_Witness ==
    \E t \in Procs :
        /\ Finishing(t, "StartCore")
        /\ frame[t].snap = {}
        /\ frame[t].launched = {}
        /\ Registered(coreInformers) = CoreKinds
        /\ \A k \in CoreKinds : startedCoreInformers[k] /\ Len(runs[k]) = 1

\* C5: while a Start call runs, the core map, the core flags and the launches
\* of core pipelines do not change; while a StartCore call runs, the general
\* map, the general flags and the launches of general pipelines do not change.
C5_PoolsIndependent ==
    [][/\ (\E t \in Procs : frame[t].fn = "Start") =>
            /\ UNCHANGED <<coreInformers, startedCoreInformers>>
            /\ \A k \in Kinds : runs'[k] # runs[k] =>
                   /\ runs'[k][Len(runs'[k])].inf = informers[k]
                   /\ runs'[k][Len(runs'[k])].inf \notin {coreInformers[j] : j \in Kinds}
       /\ (\E t \in Procs : frame[t].fn = "StartCore") =>
            /\ UNCHANGED <<informers, startedInformers>>
            /\ \A k \in Kinds : runs'[k] # runs[k] =>
                   /\ runs'[k][Len(runs'[k])].inf = coreInformers[k]
                   /\ runs'[k][Len(runs'[k])].inf \notin {informers[j] : j \in Kinds}
      ]_vars

\* C5 witness: a Start call has launched a general pipeline while a core
\* pipeline is registered and not started.
C5_Witness ==
    \E t \in Procs :
        /\ frame[t].fn = "Start"
        /\ frame[t].launched # {}
        /\ \E k \in Registered(coreInformers) : ~startedCoreInformers[k] /\ runs[k] = <<>>

\* C6: with Start calls running concurrently with each other and with
\* getOrCreate, Start launches each general pipeline at most once in total,
\* and a general started flag is set only for a registered pipeline whose run
\* loop has been launched.
C6_ConcurrentStartSafe ==
    \A k \in Kinds :
        /\ Cardinality({i \in DOMAIN runs[k] : runs[k][i].by = "Start"}) <= 1
        /\ startedInformers[k] =>
              /\ informers[k] # Nil
              /\ \E i \in DOMAIN runs[k] :
                    runs[k][i].by = "Start" /\ runs[k][i].inf = informers[k]

\* C6 witness: a Start call has launched and marked a pipeline while a second
\* goroutine is blocked in Lock().
C6_Witness ==
    \E t, u \in Procs :
        /\ t # u
        /\ frame[t].fn = "Start"
        /\ \E k \in frame[t].launched : startedInformers[k]
        /\ pc[u] = "lock"

\* C7: a pipeline is built from the override handle when the override table
\* has an entry for its kind, and from the default client when it has none.
C7_OverrideUsed ==
    \A k \in Kinds : Stored(k) # Nil =>
        Stored(k).lw = IF k \in DOMAIN customListerWatchers
                       THEN customListerWatchers[k] ELSE DefaultClient

\* C7 witness: one stored pipeline was built from an override handle and
\* another from the default client.
C7_Witness ==
    \E k1, k2 \in Kinds :
        /\ k1 \in DOMAIN customListerWatchers
        /\ Stored(k1) # Nil /\ Stored(k1).lw \in Handles
        /\ k2 \notin DOMAIN customListerWatchers
        /\ Stored(k2) # Nil /\ Stored(k2).lw = DefaultClient

\* C8: a construction failure is not cached: a getOrCreate call that finds no
\* entry for its kind always goes on to construct, whether or not an earlier
\* attempt failed, and a call whose PipelineSource succeeds stores the new
\* pipeline and returns it.
C8_NoNegativeCaching ==
    /\ [][\A t \in Procs :
             (pc[t] = "check" /\ pc'[t] # "check" /\ Stored(frame[t].kind) = Nil)
                => pc'[t] = "construct"]_vars
    /\ [](\A t \in Procs : (Returning(t) /\ frame[t].src = "built") =>
             /\ frame[t].val \notin {Nil, Err}
             /\ Stored(frame[t].kind) = frame[t].val)

\* C8 witness: a call constructs, stores and returns a pipeline for the kind
\* whose construction failed most recently.
C8_Witness ==
    \E t \in Procs :
        /\ Returning(t)
        /\ frame[t].src = "built"
        /\ failed = frame[t].kind
        /\ Stored(frame[t].kind) = frame[t].val

\* C9: a getOrCreate call returns the failure exactly when its own
\* PipelineSource attempt failed; from that failure on, the call changes no
\* pool, no started flag, no launch and no construction count, and no failure
\* value ever enters a pool or is launched.
C9_FailureIsLocal ==
    /\ [](\A t \in Procs : Returning(t) =>
             (frame[t].val = Err <=> frame[t].src = "failed"))
    /\ [](\A k \in Kinds : informers[k] # Err /\ coreInformers[k] # Err)
    /\ [](Err \notin Launched)
    /\ [][(\E t \in Procs : frame[t].src = "failed" \/ frame'[t].src = "failed")
             => UNCHANGED <<pools, flags, runs, constructed>>]_vars

\* C9 witness: after a failure for one kind, which is still absent, a call
\* for another kind constructs and returns its pipeline.
C9_Witness ==
    \E t \in Procs :
        /\ Returning(t)
        /\ frame[t].src = "built"
        /\ failed \in Kinds \ {frame[t].kind}
        /\ Stored(failed) = Nil
        /\ Stored(frame[t].kind) = frame[t].val

\* C10 as stated: once Builds() has been called by both goroutines and the
\* calls StartCore, Start, Start have returned, the Build pipeline's run loop
\* has been launched exactly once.
C10_Original == ScenarioDone => Len(runs["Build"]) = 1

\* C10: when a Build pipeline is registered by the time the driver makes its
\* first call (a facade returned by Builds() was resolved through
\* getOrCreate), StartCore launches nothing, the first Start launches the
\* Build pipeline, the second Start launches nothing, and at the end the
\* Build pipeline's run loop has been launched exactly once, by Start.
C10_BuildLaunchedOnce ==
    script.pre =>
        /\ Finishing(Driver, "StartCore") =>
              frame[Driver].launched = {} /\ runs["Build"] = <<>>
        /\ (Finishing(Driver, "Start") /\ Len(script.calls) = 2) =>
              frame[Driver].launched = {"Build"}
        /\ (Finishing(Driver, "Start") /\ Len(script.calls) = 1) =>
              frame[Driver].launched = {}
        /\ ScenarioDone =>
              /\ Len(runs["Build"]) = 1
              /\ runs["Build"][1].by = "Start"
              /\ runs["Build"][1].inf = informers["Build"]

\* C10 witness: the scripted calls have returned, the Build pipeline was
\* registered before them, and its run loop has been launched once.
C10_Witness ==
    /\ ScenarioDone
    /\ script.pre
    /\ Len(runs["Build"]) = 1
    /\ startedInformers["Build"]

\* The positions of a goroutine that holds the mutex.
Holding == {"check", "construct", "insert", "return", "range", "run", "mark"}

\* C11: Start and StartCore do not wait for run loops: every Start/StartCore
\* call eventually returns and the mutex is eventually released, also when
\* no channel is ever closed and no run loop ever returns; the mutex is held
\* only by a goroutine inside one of the locked calls, never by a run loop;
\* and a goroutine waiting in Lock() eventually proceeds.
C11_StartDoesNotWait ==
    /\ \A t \in Threads :
          (frame[t].fn \in {"Start", "StartCore"}) ~> (pc[t] = "idle")
    /\ (lock = TRUE) ~> (lock = FALSE)
    /\ [](lock = TRUE => \E t \in Threads : pc[t] \in Holding)
    /\ \A t \in Threads : (pc[t] = "lock") ~> (pc[t] \in Holding)

\* C11 witness: a Start call that launched a run loop is at its return while
\* no channel is closed, no run loop has returned, and another goroutine
\* waits in Lock().
C11_Witness ==
    \E t, u \in Threads :
        /\ t # u
        /\ Finishing(t, "Start")
        /\ frame[t].launched # {}
        /\ closed = {}
        /\ stopped = {}
        /\ pc[u] = "lock"

\* C12: when a Start (StartCore) call is at its return, every kind with an
\* entry in the general (core) map -- the map cannot change while the call
\* holds the mutex, so these are the kinds registered when it took the lock,
\* and they include the unstarted ones it found then -- has its started flag
\* true and a launch of its stored pipeline; none is skipped.
C12_NoneSkipped ==
    \A t \in Procs :
        /\ Finishing(t, "Start") =>
              /\ frame[t].snap \subseteq {k \in Kinds : informers[k] # Nil}
              /\ \A k \in Kinds : informers[k] # Nil =>
                    /\ startedInformers[k]
                    /\ \E i \in DOMAIN runs[k] : runs[k][i].inf = informers[k]
        /\ Finishing(t, "StartCore") =>
              /\ frame[t].snap \subseteq {k \in Kinds : coreInformers[k] # Nil}
              /\ \A k \in Kinds : coreInformers[k] # Nil =>
                    /\ startedCoreInformers[k]
                    /\ \E i \in DOMAIN runs[k] : runs[k][i].inf = coreInformers[k]

\* C12 witness: a Start call that found both general kinds registered and
\* unstarted is at its return, having launched both.
C12_Witness ==
    \E t \in Procs :
        /\ Finishing(t, "Start")
        /\ frame[t].snap = GeneralKinds
        /\ frame[t].launched = GeneralKinds

\* C13: a registered pipeline whose flag is false has no launch as long as
\* no Start (StartCore) call on its pool is running, so a pipeline created
\* after a Start has completed stays unstarted until the next Start; a run
\* loop is launched only by a start call on the pipeline's pool, for a kind
\* that call found registered with its flag false and that has no launch
\* yet; and at its return a start call has launched exactly the kinds it
\* found registered and unstarted, every other registered kind keeping its
\* single earlier launch.
C13_LateRegistrationWaits ==
    /\ [](\A k \in Kinds :
             /\ (informers[k] # Nil /\ ~startedInformers[k]
                   /\ ~\E t \in Procs : frame[t].fn = "Start")
                => ~\E i \in DOMAIN runs[k] : runs[k][i].inf = informers[k]
             /\ (coreInformers[k] # Nil /\ ~startedCoreInformers[k]
                   /\ ~\E t \in Procs : frame[t].fn = "StartCore")
                => ~\E i \in DOMAIN runs[k] : runs[k][i].inf = coreInformers[k])
    /\ [][\A k \in Kinds : runs'[k] # runs[k] =>
             /\ runs[k] = <<>>
             /\ \E t \in Procs :
                   /\ frame[t].cur = k
                   /\ k \in frame[t].snap
                   /\ \/ /\ frame[t].fn = "Start"
                         /\ informers[k] # Nil
                         /\ ~startedInformers[k]
                      \/ /\ frame[t].fn = "StartCore"
                         /\ coreInformers[k] # Nil
                         /\ ~startedCoreInformers[k]]_vars
    /\ [](\A t \in Procs : \A fn \in {"Start", "StartCore"} : Finishing(t, fn) =>
             /\ frame[t].launched = frame[t].snap
             /\ \A k \in RegisteredFor(fn) \ frame[t].snap :
                   Len(runs[k]) = 1 /\ k \notin frame[t].launched)

\* C13 witness: a Start call is at its return having launched only
\* ImageStream, registered after the Start that launched Build; Build was
\* started when the call took the lock and still has its single launch.
C13_Witness ==
    \E t \in Procs :
        /\ Finishing(t, "Start")
        /\ frame[t].snap = {"ImageStream"}
        /\ frame[t].launched = {"ImageStream"}
        /\ informers["Build"] # Nil
        /\ startedInformers["Build"]
        /\ Len(runs["Build"]) = 1

\* A core pipeline is registered and not started.
CoreWaiting == \E j \in Kinds : coreInformers[j] # Nil /\ ~startedCoreInformers[j]

\* StartCore has launched nothing so far.
NoCoreLaunch == \A k \in Kinds : \A i \in DOMAIN runs[k] : runs[k][i].by # "StartCore"

\* C14: Start does not depend on StartCore: a Start call that is at its
\* return while a registered core pipeline is unstarted (StartCore was not
\* called, or was called too early) has nevertheless started every
\* registered general pipeline, each with one launch by Start.
C14_NoOrderEnforced ==
    \A t \in Procs : (Finishing(t, "Start") /\ CoreWaiting) =>
        \A k \in Registered(informers) :
            /\ startedInformers[k]
            /\ Len(runs[k]) = 1
            /\ runs[k][1].by = "Start"

\* C14 witness: a Start call is at its return with a general pipeline
\* started, while a core pipeline is registered and not started and
\* StartCore has never launched anything.
C14_Witness ==
    \E t \in Procs :
        /\ Finishing(t, "Start")
        /\ frame[t].launched # {}
        /\ \E k \in GeneralKinds : informers[k] # Nil /\ startedInformers[k]
        /\ CoreWaiting
        /\ NoCoreLaunch

\* C15: every launch carries the channel that was handed to the Start or
\* StartCore call making it; a launch whose channel is closed eventually
\* stops, and only such a launch stops; closing a channel and the return of
\* a run loop leave the pools and the started flags as they are.
C15_CancelStopsRuns ==
    /\ [][\A k \in Kinds : runs'[k] # runs[k] =>
             \E t \in Threads :
                 /\ frame[t].fn \in {"Start", "StartCore"}
                 /\ frame[t].cur = k
                 /\ frame[t].ch \in Chans
                 /\ runs'[k] = Append(runs[k], [inf |-> frame[t].inf,
                                                ch |-> frame[t].ch,
                                                by |-> frame[t].fn])]_vars
    /\ \A k \in LiveKinds :
          (runs[k] # <<>> /\ runs[k][1].ch \in closed) ~> (<<k, 1>> \in stopped)
    /\ [](\A k \in Kinds : Len(runs[k]) <= 1)
    /\ [](\A r \in stopped : runs[r[1]][r[2]].ch \in closed)
    /\ [][(closed' # closed \/ stopped' # stopped) => UNCHANGED <<pools, flags>>]_vars

\* C15 witness: the Build run loop, launched by Start with stopA, has
\* stopped and Build is still registered and flagged started, while the
\* ClusterPolicy run loop, launched by StartCore with stopB, runs on because
\* stopB is not closed.
C15_Witness ==
    /\ runs["Build"] # <<>>
    /\ runs["Build"][1].ch = "stopA"
    /\ runs["Build"][1].by = "Start"
    /\ <<"Build", 1>> \in stopped
    /\ informers["Build"] # Nil
    /\ startedInformers["Build"]
    /\ runs["ClusterPolicy"] # <<>>
    /\ runs["ClusterPolicy"][1].ch = "stopB"
    /\ runs["ClusterPolicy"][1].by = "StartCore"
    /\ "stopB" \notin closed
    /\ <<"ClusterPolicy", 1>> \notin stopped

\* C16: from the moment a getOrCreate call for kind K takes the lock to its
\* return, no started flag changes and no run loop is launched; no map entry
\* of a kind other than K changes; for a K whose facade targets the core
\* pool the general map does not change, and for any other K the core map
\* does not change.  A pipeline the call has built is, at the call's return,
\* flagged started in neither pool and has never been launched.
C16_GetOrCreateFrame ==
    /\ [][\A t \in Procs :
             (frame[t].fn = "getOrCreate" \/ frame'[t].fn = "getOrCreate") =>
                LET K == IF frame[t].fn = "getOrCreate"
                         THEN frame[t].kind ELSE frame'[t].kind
                IN  /\ UNCHANGED <<flags, runs>>
                    /\ \A j \in Kinds \ {K} :
                          /\ informers'[j] = informers[j]
                          /\ coreInformers'[j] = coreInformers[j]
                    /\ K \in CoreKinds => informers' = informers
                    /\ K \notin CoreKinds => coreInformers' = coreInformers]_vars
    /\ [](\A t \in Procs : (Returning(t) /\ frame[t].src = "built") =>
             /\ ~startedInformers[frame[t].kind]
             /\ ~startedCoreInformers[frame[t].kind]
             /\ frame[t].val \notin Launched)

\* C16 witness: a call has built and stored a core pipeline and is at its
\* return; the general pool holds a started pipeline that the call left
\* alone, and the new pipeline is unstarted.
C16_Witness ==
    \E t \in Procs :
        /\ Returning(t)
        /\ frame[t].src = "built"
        /\ frame[t].kind \in CoreKinds
        /\ coreInformers[frame[t].kind] = frame[t].val
        /\ informers[frame[t].kind] = Nil
        /\ ~startedCoreInformers[frame[t].kind]
        /\ \E g \in GeneralKinds : informers[g] # Nil /\ startedInformers[g]

\* C17: no step -- of getOrCreate, Start, StartCore, the closing of a
\* channel or the return of a run loop -- removes or replaces a stored
\* pipeline or turns a started flag from true to false, and a kind one of
\* whose run loops has returned is never launched again.
C17_Monotone ==
    [][\A k \in Kinds :
          /\ informers[k] # Nil => informers'[k] = informers[k]
          /\ coreInformers[k] # Nil => coreInformers'[k] = coreInformers[k]
          /\ startedInformers[k] => startedInformers'[k]
          /\ startedCoreInformers[k] => startedCoreInformers'[k]
          /\ (\E i \in DOMAIN runs[k] : <<k, i>> \in stopped) => runs'[k] = runs[k]
      ]_vars

\* C17 witness: a Start call that took the lock after the Build run loop had
\* returned has come to Build, passed over it, and is at its return with
\* nothing launched; Build is still stored and flagged started.
C17_Witness ==
    \E t \in Threads :
        /\ Finishing(t, "Start")
        /\ frame[t].cur = "Build"
        /\ frame[t].launched = {}
        /\ <<"Build", 1>> \in stopped
        /\ Len(runs["Build"]) = 1
        /\ informers["Build"] # Nil
        /\ startedInformers["Build"]

\* The pipeline stored for k in a map has been launched exactly once.
LaunchedOnce(m, k) == m[k] # Nil /\ Cardinality(LaunchesOf(m[k])) = 1

\* A start call fn holds the mutex between its launch of k's run loop and
\* the assignment of k's flag.
Marking(fn, k) ==
    /\ lock = TRUE
    /\ \E t \in Procs : pc[t] = "mark" /\ frame[t].fn = fn /\ frame[t].cur = k

\* C18 as stated: in every state and for each pool, a kind's started flag
\* is true if and only if the kind is registered in the pool and its run
\* loop has been launched exactly once.
C18_Original ==
    \A k \in Kinds :
        /\ startedInformers[k] <=> LaunchedOnce(informers, k)
        /\ startedCoreInformers[k] <=> LaunchedOnce(coreInformers, k)

\* C18: in every state and for each pool, a started flag is true only for a
\* kind that is registered in the pool and whose run loop has been launched
\* exactly once; a registered kind launched once has its flag true, except
\* that between `go informer.Run(stopCh)` and the assignment of the flag the
\* start call that holds the mutex has launched the kind and not yet set the
\* flag; so the equivalence holds whenever the mutex is free.
C18_FlagIffLaunchedOnce ==
    \A k \in Kinds :
        /\ startedInformers[k] => LaunchedOnce(informers, k)
        /\ startedCoreInformers[k] => LaunchedOnce(coreInformers, k)
        /\ (LaunchedOnce(informers, k) /\ ~startedInformers[k]) => Marking("Start", k)
        /\ (LaunchedOnce(coreInformers, k) /\ ~startedCoreInformers[k])
              => Marking("StartCore", k)
        /\ lock = FALSE =>
              /\ startedInformers[k] <=> LaunchedOnce(informers, k)
              /\ startedCoreInformers[k] <=> LaunchedOnce(coreInformers, k)

\* C18 witness: the mutex is free; one general and one core pipeline are
\* flagged started, each launched once, and another registered pipeline is
\* neither flagged nor launched.
C18_Witness ==
    /\ lock = FALSE
    /\ \E g \in GeneralKinds : startedInformers[g] /\ LaunchedOnce(informers, g)
    /\ \E c \in CoreKinds : startedCoreInformers[c] /\ LaunchedOnce(coreInformers, c)
    /\ \E k \in Kinds : Stored(k) # Nil /\ runs[k] = <<>>
                          /\ ~startedInformers[k] /\ ~startedCoreInformers[k]

\* C19: a call of a typed accessor or of a passthrough accessor takes a
\* goroutine from before the call to holding a facade or a factory and
\* changes nothing else: both pools, all started flags, the mutex, the
\* launches and the construction counts stay as they are and no pipeline is
\* returned; the call is possible whenever the goroutine is about to make
\* it, whoever holds the mutex; and a pipeline is constructed or stored only
\* by a getOrCreate call for its kind, at its construct or insert step.
C19_AccessorsOnlyView ==
    /\ [][\A t \in Threads : (pc[t] = "start" /\ pc'[t] # "start") =>
             /\ pc'[t] \in {"facade", "view"}
             /\ frame'[t].fn \in {"accessor", "passthrough"}
             /\ frame'[t].val = Nil
             /\ frame'[t].inf = Nil
             /\ UNCHANGED <<pools, flags, lock, runs, constructed, failed>>]_vars
    /\ [](\A t \in Threads : pc[t] = "start" =>
             /\ \A k \in LiveKinds : ENABLED (Accessor(t, k) /\ UNCHANGED outside)
             /\ \A v \in Passthroughs : ENABLED (Passthrough(t, v) /\ UNCHANGED outside))
    /\ [][\A k \in Kinds :
             (\/ constructed'[k] # constructed[k]
              \/ informers'[k] # informers[k]
              \/ coreInformers'[k] # coreInformers[k])
             => \E t \in Threads :
                    /\ frame[t].fn = "getOrCreate"
                    /\ frame[t].kind = k
                    /\ pc[t] \in {"construct", "insert"}]_vars

\* C19 witness: a goroutine holds a Build facade while no Build pipeline has
\* been constructed or stored, another goroutine holds a passthrough
\* factory, and a ClusterPolicy pipeline, resolved earlier through a facade,
\* is stored.
C19_Witness ==
    \E t, u \in Threads :
        /\ pc[t] = "facade"
        /\ frame[t].kind = "Build"
        /\ constructed["Build"] = 0
        /\ informers["Build"] = Nil
        /\ pc[u] = "view"
        /\ frame[u].kind \in Passthroughs
        /\ coreInformers["ClusterPolicy"] # Nil
        /\ constructed["ClusterPolicy"] = 1

====
